---- MODULE Spec2Model ----
\* A model of extract_tables.py: the batch loop over a directory of PDF files,
\* process_pdf (one spreadsheet per page), and the helpers reverse_strings,
\* extract_header_above_table and extract_lines_below_table.
\*
\* Python values are tagged records (PyStr, PyInt, PyNone, PyNaN); a Python str
\* is a sequence of one-character strings, so that slicing, stripping,
\* splitting and reversing are computed and not assumed.
EXTENDS Integers, Sequences, FiniteSets, TLC

VARIABLES
    \* the batch run (module level loop and process_pdf)
    entries,        \* os.listdir(input_dir): TRUE for a name ending in ".pdf"
    file_idx,       \* position of the batch loop in entries (1-based)
    pc,             \* "loop", "pages", "unwinding", "crashed", "done"
    n_pages,        \* len(pdf.pages) of the file that is open
    page_num,       \* the page the page loop is at (enumerate(..., start=1))
    open_handles,   \* the files whose pdfplumber handle is open
    written,        \* the spreadsheets on disk: <<file, page>>
    tables,         \* page.extract_tables() of the page processed last
    table_objs,     \* page.find_tables() of the page processed last
    cur_page,       \* the page processed last: width, height, text of its bands
    excel,          \* what the page processed last wrote, NoExcel if nothing
    \* the helpers on a band's text
    text,           \* what extract_text() returns for the band
    header_lines,   \* result of extract_header_above_table
    footer_combined,\* result of extract_lines_below_table
    tpc,
    \* reverse_strings
    df0,            \* a DataFrame
    df1,            \* reverse_strings(df0)
    df2,            \* reverse_strings(df1)
    cpc,
    \* the bands
    page_width,
    page_height,
    table_bbox,
    height_above,
    height_scan,
    header_band,
    footer_band,
    bpc

batchVars == <<entries, file_idx, pc, n_pages, page_num, open_handles, written,
               tables, table_objs, cur_page, excel>>
textVars == <<text, header_lines, footer_combined, tpc>>
cellVars == <<df0, df1, df2, cpc>>
bandVars == <<page_width, page_height, table_bbox, height_above, height_scan,
              header_band, footer_band, bpc>>
vars == <<batchVars, textVars, cellVars, bandVars>>

----------------------------------------------------------------------------
\* Bounds of the model

MaxLines == 6       \* lines of a band's text, before trimming
MaxFrameRows == 2   \* rows of a DataFrame given to reverse_strings
MaxFrameCols == 2   \* columns of a DataFrame given to reverse_strings
MaxRows == 3        \* rows of a detected table
MaxCols == 2        \* columns of a detected table
MaxTables == 2      \* tables (and geometry objects) detected on a page
MaxFiles == 2       \* entries of the input directory
MaxPages == 2       \* pages of a PDF
MaxPageWidth == 2   \* page width in the band arithmetic
MaxPageHeight == 4  \* page height in the band arithmetic
MaxBandHeight == 3  \* height_above, height_scan in the band arithmetic

----------------------------------------------------------------------------
\* Python values

PyStr(s) == [kind |-> "str", s |-> s, n |-> 0]
PyInt(n) == [kind |-> "int", s |-> <<>>, n |-> n]
PyNone == [kind |-> "none", s |-> <<>>, n |-> 0]
PyNaN == [kind |-> "nan", s |-> <<>>, n |-> 0]

\* isinstance(x, str)
IsStr(x) == x.kind = "str"

\* truth value of an Optional[str]: None and "" are falsy
Truthy(x) == x.kind = "str" /\ x.s # <<>>

NL == "\n"
Whitespace == {" ", NL}
Chars == {"a", "b", " ", NL}

Max(a, b) == IF a >= b THEN a ELSE b
Min(a, b) == IF a <= b THEN a ELSE b

\* s[::-1]
Reverse(s) == [i \in 1..Len(s) |-> s[Len(s) + 1 - i]]

\* str.strip()
RECURSIVE LStrip(_)
LStrip(s) ==
    IF s # <<>> /\ Head(s) \in Whitespace THEN LStrip(Tail(s)) ELSE s

Strip(s) == Reverse(LStrip(Reverse(LStrip(s))))

\* str.splitlines(): a line ends at each line break; what follows the last
\* line break is a line only if it is not empty
RECURSIVE SplitFrom(_, _, _)
SplitFrom(s, cur, acc) ==
    IF s = <<>> THEN (IF cur = <<>> THEN acc ELSE Append(acc, cur))
    ELSE IF Head(s) = NL THEN SplitFrom(Tail(s), <<>>, Append(acc, cur))
    ELSE SplitFrom(Tail(s), Append(cur, Head(s)), acc)

SplitLines(s) == SplitFrom(s, <<>>, <<>>)

\* [line.strip() for line in text.splitlines() if line.strip()]
RECURSIVE StripNonEmpty(_)
StripNonEmpty(ls) ==
    IF ls = <<>> THEN <<>>
    ELSE IF Strip(Head(ls)) # <<>>
         THEN <<Strip(Head(ls))>> \o StripNonEmpty(Tail(ls))
         ELSE StripNonEmpty(Tail(ls))

Lines(t) == StripNonEmpty(SplitLines(t))

\* lines[i][::-1] if len(lines) > i else ""      (i is 0-based)
LineOrEmpty(lines, i) == IF Len(lines) > i THEN Reverse(lines[i + 1]) ELSE <<>>

----------------------------------------------------------------------------
\* The bands and the text in them

\* height_above=60, height_scan=70: the defaults process_pdf calls with
DefaultHeightAbove == 60
DefaultHeightScan == 70

\* header_bbox = (0, max(y0 - height_above, 0), page_width, y0)
header_bbox(page, bbox, h_above) ==
    <<0, Max(bbox[2] - h_above, 0), page.width, bbox[2]>>

\* footer_bbox = (0, y1, page_width, min(y1 + height_scan, page_height))
footer_bbox(page, bbox, h_scan) ==
    <<0, bbox[4], page.width, Min(bbox[4] + h_scan, page.height)>>

\* page.within_bbox(bbox).extract_text(): the page maps a band to its text
within_bbox_extract_text(page, bbox) == page.text[bbox]

\* header_of_text with the [::-1] of lines 46-47 forgotten
header_of_text_unreversed(t) ==
    IF ~Truthy(t) THEN <<<<>>, <<>>>>
    ELSE LET lines == Lines(t.s)
         IN <<IF Len(lines) > 0 THEN lines[1] ELSE <<>>,
              IF Len(lines) > 1 THEN lines[2] ELSE <<>>>>

\* the tail of extract_header_above_table, from the band's text on
header_of_text(t) ==
    IF ~Truthy(t) THEN <<<<>>, <<>>>>
    ELSE LET lines == Lines(t.s)
             first_line == LineOrEmpty(lines, 0)
             second_line == LineOrEmpty(lines, 1)
         IN <<first_line, second_line>>

extract_header_above_table(page, bbox, h_above) ==
    header_of_text(within_bbox_extract_text(page, header_bbox(page, bbox, h_above)))

\* Combine with the "if l" of line 80 forgotten
RECURSIVE CombineAlways(_, _)
CombineAlways(combined, ls) ==
    IF ls = <<>> THEN combined
    ELSE CombineAlways(combined \o <<NL>> \o Head(ls), Tail(ls))

\* combined = third_line; for l in [fourth_line, fifth_line]: if l: combined += "\n" + l
RECURSIVE Combine(_, _)
Combine(combined, ls) ==
    IF ls = <<>> THEN combined
    ELSE IF Head(ls) # <<>>
         THEN Combine(combined \o <<NL>> \o Head(ls), Tail(ls))
         ELSE Combine(combined, Tail(ls))

\* the tail of extract_lines_below_table, from the band's text on
footer_of_text(t) ==
    IF ~Truthy(t) THEN <<>>
    ELSE LET lines == Lines(t.s)
             third_line == LineOrEmpty(lines, 2)
             fourth_line == LineOrEmpty(lines, 3)
             fifth_line == LineOrEmpty(lines, 4)
         IN Combine(third_line, <<fourth_line, fifth_line>>)

extract_lines_below_table(page, bbox, h_scan) ==
    footer_of_text(within_bbox_extract_text(page, footer_bbox(page, bbox, h_scan)))

----------------------------------------------------------------------------
\* DataFrames: column labels, the row index, and the rows (each row holds one
\* value per column)

\* the label of a column: an int for a cell column, a str for a metadata column
CellCol(i) == [kind |-> "cell", i |-> i, name |-> ""]
MetaCol(name) == [kind |-> "meta", i |-> 0, name |-> name]

\* pd.DataFrame(table), table a list of rows of equal length: the columns are
\* labelled 0..k-1 and the rows 0..n-1
DataFrame(table) ==
    LET ncols == IF table = <<>> THEN 0 ELSE Len(table[1])
    IN [columns |-> [j \in 1..ncols |-> CellCol(j - 1)],
        index |-> [i \in 1..Len(table) |-> i - 1],
        data |-> table]

\* lambda x: str(x)[::-1]: reverse_strings with the isinstance test forgotten
ReverseAny(x) ==
    IF IsStr(x) THEN PyStr(Reverse(x.s))
    ELSE IF x.kind = "none" THEN PyStr(<<"e", "n", "o", "N">>)
    ELSE x

reverse_strings_any(df) ==
    [df EXCEPT !.data =
        [r \in DOMAIN df.data |->
            [c \in DOMAIN df.data[r] |-> ReverseAny(df.data[r][c])]]]

\* df.applymap(lambda x: x[::-1] if isinstance(x, str) else x)
reverse_strings(df) ==
    [df EXCEPT !.data =
        [r \in DOMAIN df.data |->
            [c \in DOMAIN df.data[r] |->
                LET x == df.data[r][c]
                IN IF IsStr(x) THEN PyStr(Reverse(x.s)) ELSE x]]]

\* df[label] = values: an existing column is replaced, a new one is appended
SetColumn(df, label, values) ==
    IF \E j \in 1..Len(df.columns) : df.columns[j] = label
    THEN [df EXCEPT !.data =
             [r \in DOMAIN df.data |->
                 [j \in DOMAIN df.data[r] |->
                     IF df.columns[j] = label THEN values[r] ELSE df.data[r][j]]]]
    ELSE [df EXCEPT !.columns = Append(df.columns, label),
                    !.data = [r \in DOMAIN df.data |-> Append(df.data[r], values[r])]]

\* a scalar assigned to a column is broadcast to every row
Broadcast(df, x) == [r \in 1..Len(df.index) |-> x]

\* the column labels of lines 125-130 (transliterated), in assignment order
ColPageNum == MetaCol("shomareh safheh")
ColRow == MetaCol("radif")
ColReshte == MetaCol("reshteh dabirestan")
ColTitle1 == MetaCol("onvan jadval")
ColTitle2 == MetaCol("onvan dovom")
ColFooter == MetaCol("khat sevom ta panjom paeen jadval")

\* lines 125-130: df["..."] = page_num, range(1, len(df) + 1), reshte,
\* header_line1, header_line2, footer_combined
AddMetadata(df, pnum, reshte, header_line1, header_line2, footer) ==
    LET d1 == SetColumn(df, ColPageNum, Broadcast(df, PyInt(pnum)))
        d2 == SetColumn(d1, ColRow, [r \in 1..Len(df.index) |-> PyInt(r)])
        d3 == SetColumn(d2, ColReshte, Broadcast(df, PyStr(reshte)))
        d4 == SetColumn(d3, ColTitle1, Broadcast(df, PyStr(header_line1)))
        d5 == SetColumn(d4, ColTitle2, Broadcast(df, PyStr(header_line2)))
    IN SetColumn(d5, ColFooter, Broadcast(df, PyStr(footer)))

\* the loop body with reverse_strings applied after the metadata columns
TableFrameReversedLast(page, table, table_obj, pnum, reshte) ==
    LET hdr == extract_header_above_table(page, table_obj.bbox, DefaultHeightAbove)
        footer == extract_lines_below_table(page, table_obj.bbox, DefaultHeightScan)
    IN reverse_strings(
           AddMetadata(DataFrame(table), pnum, reshte, hdr[1], hdr[2], footer))

\* lines 115-130, the loop body for one non-empty table
TableFrame(page, table, table_obj, pnum, reshte) ==
    LET df == reverse_strings(DataFrame(table))
        hdr == extract_header_above_table(page, table_obj.bbox, DefaultHeightAbove)
        footer == extract_lines_below_table(page, table_obj.bbox, DefaultHeightScan)
    IN AddMetadata(df, pnum, reshte, hdr[1], hdr[2], footer)

\* line 110 with the comparison of the lengths forgotten
TablesMatchNoLen(tbls, objs) == tbls # <<>> /\ objs # <<>>

\* line 110: tables and table_objs and len(tables) == len(table_objs)
TablesMatch(tbls, objs) == tbls # <<>> /\ objs # <<>> /\ Len(tbls) = Len(objs)

\* lines 111-132: for (table, table_obj) in zip(tables, table_objs), from
\* position k on; zip stops at the shorter list; an empty table is skipped
RECURSIVE CollectFrames(_, _, _, _, _, _)
CollectFrames(page, tbls, objs, k, pnum, reshte) ==
    IF k > Min(Len(tbls), Len(objs)) THEN <<>>
    ELSE IF tbls[k] = <<>>
         THEN CollectFrames(page, tbls, objs, k + 1, pnum, reshte)
         ELSE <<TableFrame(page, tbls[k], objs[k], pnum, reshte)>>
                  \o CollectFrames(page, tbls, objs, k + 1, pnum, reshte)

\* lines 107-132: all_dfs of a page
all_dfs(page, tbls, objs, pnum, reshte) ==
    IF TablesMatch(tbls, objs)
    THEN CollectFrames(page, tbls, objs, 1, pnum, reshte)
    ELSE <<>>

\* the labels of cols, then those of more that are not among them
RECURSIVE UnionLabels(_, _)
UnionLabels(cols, more) ==
    IF more = <<>> THEN cols
    ELSE IF \E j \in 1..Len(cols) : cols[j] = Head(more)
         THEN UnionLabels(cols, Tail(more))
         ELSE UnionLabels(Append(cols, Head(more)), Tail(more))

\* the union of the frames' column labels, in order of first appearance
RECURSIVE ConcatColumns(_)
ConcatColumns(dfs) ==
    IF dfs = <<>> THEN <<>>
    ELSE UnionLabels(Head(dfs).columns, ConcatColumns(Tail(dfs)))

\* the value of row r of df under label, NaN if df has no such column
ValueAt(df, r, label) ==
    IF \E j \in 1..Len(df.columns) : df.columns[j] = label
    THEN df.data[r][CHOOSE j \in 1..Len(df.columns) : df.columns[j] = label]
    ELSE PyNaN

\* the rows of the frames, one after the other, laid out on cols
RECURSIVE ConcatRows(_, _)
ConcatRows(dfs, cols) ==
    IF dfs = <<>> THEN <<>>
    ELSE [r \in 1..Len(Head(dfs).data) |->
             [j \in 1..Len(cols) |-> ValueAt(Head(dfs), r, cols[j])]]
         \o ConcatRows(Tail(dfs), cols)

\* pd.concat(all_dfs, ignore_index=True) that also renumbers the row column
concat_renumbering(dfs) ==
    LET cols == ConcatColumns(dfs)
        rows == ConcatRows(dfs, cols)
        df == [columns |-> cols,
               index |-> [i \in 1..Len(rows) |-> i - 1],
               data |-> rows]
    IN SetColumn(df, ColRow, [r \in 1..Len(rows) |-> PyInt(r)])

\* pd.concat(all_dfs, ignore_index=True): the rows are stacked on the union of
\* the columns and the row index is renumbered 0..M-1
concat(dfs) ==
    LET cols == ConcatColumns(dfs)
        rows == ConcatRows(dfs, cols)
    IN [columns |-> cols,
        index |-> [i \in 1..Len(rows) |-> i - 1],
        data |-> rows]

\* result_df.to_excel(path, index=False): the sheet holds the column labels
\* and the rows, not the row index
to_excel(df) == [columns |-> df.columns, data |-> df.data]

----------------------------------------------------------------------------
\* Idle values of the variable groups a specification does not use

NoExcel == [columns |-> <<>>, data |-> <<>>]
NoPage == [width |-> 0, height |-> 0, text |-> <<>>]

IdleBatch ==
    /\ entries = <<>> /\ file_idx = 1 /\ pc = "idle" /\ n_pages = 0
    /\ page_num = 1 /\ open_handles = {} /\ written = {}
    /\ tables = <<>> /\ table_objs = <<>> /\ cur_page = NoPage /\ excel = NoExcel

IdleText ==
    /\ text = PyNone /\ header_lines = <<<<>>, <<>>>> /\ footer_combined = <<>>
    /\ tpc = "idle"

NoFrame == [columns |-> <<>>, index |-> <<>>, data |-> <<>>]

IdleCells ==
    /\ df0 = NoFrame /\ df1 = NoFrame /\ df2 = NoFrame /\ cpc = "idle"

IdleBand ==
    /\ page_width = 1 /\ page_height = 1 /\ table_bbox = <<0, 0, 1, 1>>
    /\ height_above = 1 /\ height_scan = 1
    /\ header_band = <<0, 0, 0, 0>> /\ footer_band = <<0, 0, 0, 0>>
    /\ bpc = "idle"

----------------------------------------------------------------------------
\* The helpers on a band's text: every text within the bounds

\* "\n".join(ls)
RECURSIVE JoinNL(_)
JoinNL(ls) ==
    IF ls = <<>> THEN <<>>
    ELSE IF Len(ls) = 1 THEN ls[1]
    ELSE ls[1] \o <<NL>> \o JoinNL(Tail(ls))

\* what a line of a band can look like before it is trimmed: empty, blank,
\* one letter, a word that is not a palindrome, a padded line with a blank in it
RawLines == {<<>>, <<" ">>, <<"a">>, <<"a", "b">>, <<" ", "b", " ", "a", " ">>}

\* extract_text() returns None or a str: up to MaxLines raw lines
BandTexts ==
    {PyNone} \cup
    {PyStr(JoinNL(ls)) : ls \in UNION {[1..k -> RawLines] : k \in 0..MaxLines}}

\* a table in the middle of an A4 page
SampleBbox == <<50, 300, 500, 400>>

\* a page whose header band and footer band (of SampleBbox) both hold t
TextPage(t) ==
    LET dims == [width |-> 595, height |-> 842]
        bands == {header_bbox(dims, SampleBbox, DefaultHeightAbove),
                  footer_bbox(dims, SampleBbox, DefaultHeightScan)}
    IN [width |-> dims.width, height |-> dims.height,
        text |-> [b \in bands |-> t]]

InitText ==
    /\ text \in BandTexts
    /\ header_lines = <<<<>>, <<>>>>
    /\ footer_combined = <<>>
    /\ tpc = "start"
    /\ IdleBatch /\ IdleCells /\ IdleBand

HeaderAbove ==
    /\ tpc = "start"
    /\ header_lines' =
           extract_header_above_table(TextPage(text), SampleBbox, DefaultHeightAbove)
    /\ tpc' = "header"
    /\ UNCHANGED <<text, footer_combined, batchVars, cellVars, bandVars>>

LinesBelow ==
    /\ tpc = "header"
    /\ footer_combined' =
           extract_lines_below_table(TextPage(text), SampleBbox, DefaultHeightScan)
    /\ tpc' = "done"
    /\ UNCHANGED <<text, header_lines, batchVars, cellVars, bandVars>>

NextText == HeaderAbove \/ LinesBelow

SpecText == InitText /\ [][NextText]_vars

----------------------------------------------------------------------------
\* Claims about the helpers on a band's text

\* the trimmed non-empty lines of the band, top to bottom
BandLines == IF Truthy(text) THEN Lines(text.s) ELSE <<>>

\* every line is non-empty, holds no line break, and neither starts nor ends
\* with whitespace
TrimmedNonEmpty(L) ==
    \A i \in 1..Len(L) :
        /\ L[i] # <<>>
        /\ L[i][1] \notin Whitespace
        /\ L[i][Len(L[i])] \notin Whitespace
        /\ \A j \in 1..Len(L[i]) : L[i][j] # NL

\* the reversed lines at 0-indexed positions 2, 3, 4 that exist
FooterSlice(L) == [i \in 1..(Min(Len(L), 5) - 2) |-> Reverse(L[i + 2])]

\* C4: extract_lines_below_table returns the reversed lines at 0-indexed
\* positions 2, 3 and 4 that exist, in that order, joined by single newlines;
\* it returns "" when the band has no text or fewer than 3 lines; the result
\* never starts or ends with a newline and never holds an empty segment.
C4_FooterJoinsLines3To5 ==
    tpc = "done" =>
        LET L == BandLines
            r == footer_combined
        IN /\ TrimmedNonEmpty(L)
           /\ r = JoinNL(FooterSlice(L))
           /\ (~Truthy(text) \/ Len(L) < 3) => r = <<>>
           /\ Len(L) >= 3 => r # <<>>
           /\ r # <<>> => r[1] # NL /\ r[Len(r)] # NL
           /\ \A i \in 1..(Len(r) - 1) : ~(r[i] = NL /\ r[i + 1] = NL)

\* a band of five lines, the third of them not a palindrome
C4_Witness ==
    /\ tpc = "done"
    /\ Len(BandLines) = 5
    /\ BandLines[3] = <<"a", "b">>
    /\ BandLines[5] = <<"b", " ", "a">>
    /\ footer_combined = <<"b", "a", NL, "a", NL, "a", " ", "b">>

\* a band of three lines only: nothing is appended for lines 4 and 5
C4_WitnessShort ==
    /\ tpc = "done"
    /\ Len(BandLines) = 3
    /\ footer_combined = <<"b", "a">>

\* C5: extract_header_above_table returns (reverse(L[0]), reverse(L[1])) of the
\* trimmed non-empty lines L of the band; a missing line yields "" in its
\* position, so line2 is non-empty only if line1 is.
C5_HeaderFirstTwoLines ==
    tpc \in {"header", "done"} =>
        LET L == BandLines
            line1 == header_lines[1]
            line2 == header_lines[2]
        IN /\ TrimmedNonEmpty(L)
           /\ line1 = (IF Len(L) >= 1 THEN Reverse(L[1]) ELSE <<>>)
           /\ line2 = (IF Len(L) >= 2 THEN Reverse(L[2]) ELSE <<>>)
           /\ Len(L) = 1 => line1 # <<>> /\ line2 = <<>>
           /\ ~Truthy(text) => line1 = <<>> /\ line2 = <<>>
           /\ line2 # <<>> => line1 # <<>>

\* a band holding the one line "ab", a blank line before it
C5_Witness ==
    /\ tpc = "header"
    /\ text = PyStr(<<" ", NL, "a", "b", NL>>)
    /\ header_lines = <<<<"b", "a">>, <<>>>>

----------------------------------------------------------------------------
\* reverse_strings on every small DataFrame of mixed-type cells

\* cells: the empty string, a string that is not a palindrome, None, a number
MixedCells == {PyStr(<<>>), PyStr(<<"a", "b">>), PyNone, PyInt(7)}

Grids == UNION {[1..r -> [1..c -> MixedCells]] :
                    r \in 1..MaxFrameRows, c \in 1..MaxFrameCols}

InitCells ==
    /\ \E g \in Grids : df0 = DataFrame(g)
    /\ df1 = NoFrame
    /\ df2 = NoFrame
    /\ cpc = "start"
    /\ IdleBatch /\ IdleText /\ IdleBand

Normalize ==
    /\ cpc = "start"
    /\ df1' = reverse_strings(df0)
    /\ cpc' = "once"
    /\ UNCHANGED <<df0, df2, batchVars, textVars, bandVars>>

NormalizeAgain ==
    /\ cpc = "once"
    /\ df2' = reverse_strings(df1)
    /\ cpc' = "twice"
    /\ UNCHANGED <<df0, df1, batchVars, textVars, bandVars>>

NextCells == Normalize \/ NormalizeAgain

SpecCells == InitCells /\ [][NextCells]_vars

\* the frames have the same column labels, row index and row lengths
SameShape(a, b) ==
    /\ a.columns = b.columns
    /\ a.index = b.index
    /\ Len(a.data) = Len(b.data)
    /\ \A r \in 1..Len(a.data) : Len(a.data[r]) = Len(b.data[r])

\* y is x with its characters in reverse order if x is a str, and x otherwise
CellReversed(x, y) ==
    IF x.kind = "str"
    THEN /\ y.kind = "str"
         /\ Len(y.s) = Len(x.s)
         /\ \A i \in 1..Len(x.s) : y.s[i] = x.s[Len(x.s) + 1 - i]
    ELSE y = x

\* C6: reverse_strings keeps the shape, replaces every string cell by the same
\* characters in reverse order, leaves every other cell identical, and applied
\* twice returns the original cell values.
C6_ReverseStringsInvolution ==
    /\ cpc \in {"once", "twice"} =>
          /\ SameShape(df0, df1)
          /\ \A r \in 1..Len(df0.data) : \A c \in 1..Len(df0.data[r]) :
                 CellReversed(df0.data[r][c], df1.data[r][c])
    /\ cpc = "twice" => SameShape(df0, df2) /\ df2.data = df0.data

\* a frame with a string that changes, None and a number, normalized twice
C6_Witness ==
    /\ cpc = "twice"
    /\ df0.data = <<<<PyStr(<<"a", "b">>), PyNone>>, <<PyInt(7), PyStr(<<>>)>>>>
    /\ df1.data = <<<<PyStr(<<"b", "a">>), PyNone>>, <<PyInt(7), PyStr(<<>>)>>>>
    /\ df2 = df0

----------------------------------------------------------------------------
\* The band arithmetic: every table bounding box within a small page, every
\* positive band height

\* 0 <= x0 < x1 <= page_width and 0 <= y0 < y1 <= page_height
WithinPage(bbox, w, h) ==
    /\ 0 <= bbox[1] /\ bbox[1] < bbox[3] /\ bbox[3] <= w
    /\ 0 <= bbox[2] /\ bbox[2] < bbox[4] /\ bbox[4] <= h

InitBand ==
    /\ page_width \in 1..MaxPageWidth
    /\ page_height \in 1..MaxPageHeight
    /\ table_bbox \in (0..MaxPageWidth) \X (0..MaxPageHeight)
                          \X (0..MaxPageWidth) \X (0..MaxPageHeight)
    /\ WithinPage(table_bbox, page_width, page_height)
    /\ height_above \in 1..MaxBandHeight
    /\ height_scan \in 1..MaxBandHeight
    /\ header_band = <<0, 0, 0, 0>>
    /\ footer_band = <<0, 0, 0, 0>>
    /\ bpc = "start"
    /\ IdleBatch /\ IdleText /\ IdleCells

\* page.width, page.height
BandPage == [width |-> page_width, height |-> page_height]

HeaderBand ==
    /\ bpc = "start"
    /\ header_band' = header_bbox(BandPage, table_bbox, height_above)
    /\ bpc' = "header"
    /\ UNCHANGED <<page_width, page_height, table_bbox, height_above,
                   height_scan, footer_band, batchVars, textVars, cellVars>>

FooterBand ==
    /\ bpc = "header"
    /\ footer_band' = footer_bbox(BandPage, table_bbox, height_scan)
    /\ bpc' = "done"
    /\ UNCHANGED <<page_width, page_height, table_bbox, height_above,
                   height_scan, header_band, batchVars, textVars, cellVars>>

NextBand == HeaderBand \/ FooterBand

SpecBand == InitBand /\ [][NextBand]_vars

\* the band is clipped to the page's vertical extent
Clipped(band) == 0 <= band[2] /\ band[2] <= band[4] /\ band[4] <= page_height

\* the band is a bounding box: x0 < x1 and y0 < y1
IsBoundingBox(band) == band[1] < band[3] /\ band[2] < band[4]

\* C7: for every table bounding box within the page and every positive band
\* height, the header band is (0, max(y0 - height_above, 0), page_width, y0),
\* the footer band is (0, y1, page_width, min(y1 + height_scan, page_height)),
\* both are clipped to the page's vertical extent, and each is a bounding box
\* with top < bottom.
C7_BandsAreClippedBoundingBoxes ==
    /\ bpc \in {"header", "done"} =>
          /\ header_band = <<0, Max(table_bbox[2] - height_above, 0),
                             page_width, table_bbox[2]>>
          /\ Clipped(header_band)
          /\ IsBoundingBox(header_band)
    /\ bpc = "done" =>
          /\ footer_band = <<0, table_bbox[4], page_width,
                             Min(table_bbox[4] + height_scan, page_height)>>
          /\ Clipped(footer_band)
          /\ IsBoundingBox(footer_band)

\* what does hold: the bands are as computed and clipped, and a band is
\* degenerate (top = bottom) exactly when the table touches that edge of the page
C7_BandsClippedMaybeDegenerate ==
    /\ bpc \in {"header", "done"} =>
          /\ header_band = <<0, Max(table_bbox[2] - height_above, 0),
                             page_width, table_bbox[2]>>
          /\ Clipped(header_band)
          /\ IsBoundingBox(header_band) <=> table_bbox[2] > 0
    /\ bpc = "done" =>
          /\ footer_band = <<0, table_bbox[4], page_width,
                             Min(table_bbox[4] + height_scan, page_height)>>
          /\ Clipped(footer_band)
          /\ IsBoundingBox(footer_band) <=> table_bbox[4] < page_height

----------------------------------------------------------------------------
\* The batch run: the module level loop (lines 146-149) and process_pdf

\* reshte="honar" (transliterated), the subject label of the run
Reshte == <<"h", "o", "n", "a", "r">>

SeqsUpTo(S, n) == UNION {[1..k -> S] : k \in 0..n}

\* the k-th geometry object of a page, top to bottom
Obj(k) == [bbox |-> <<50, 200 * k - 100, 500, 200 * k>>]
TableObjs(n) == [k \in 1..n |-> Obj(k)]

\* an A4 page on which every band of the geometry objects holds t
PageOf(objs, t) ==
    LET dims == [width |-> 595, height |-> 842]
        bands == UNION {{header_bbox(dims, objs[k].bbox, DefaultHeightAbove),
                         footer_bbox(dims, objs[k].bbox, DefaultHeightScan)} :
                            k \in 1..Len(objs)}
    IN [width |-> dims.width, height |-> dims.height, text |-> [b \in bands |-> t]]

\* two title lines and nothing more; five lines
TwoLines == PyStr(<<"a", "b", NL, "b", " ", "a", "a">>)
FiveLines == PyStr(<<"a", NL, " ", NL, "b", NL, "a", "b", NL, "b", "b", "a", NL,
                     "a", " ", "b">>)

\* the pages of the batch run: each table is empty or holds one cell, and the
\* bands hold no text
OneCell == <<<<PyStr(<<"a", "b">>)>>>>
SmallPages ==
    {[tables |-> ts, table_objs |-> TableObjs(n), page |-> PageOf(TableObjs(n), PyNone)] :
        ts \in SeqsUpTo({<<>>, OneCell}, MaxTables), n \in 0..MaxTables}

Init ==
    /\ entries \in SeqsUpTo(BOOLEAN, MaxFiles)
    /\ file_idx = 1
    /\ pc = "loop"
    /\ n_pages = 0
    /\ page_num = 1
    /\ open_handles = {}
    /\ written = {}
    /\ tables = <<>>
    /\ table_objs = <<>>
    /\ cur_page = NoPage
    /\ excel = NoExcel
    /\ IdleText /\ IdleCells /\ IdleBand

\* line 147: an entry whose name does not end in ".pdf" is passed over
SkipEntry ==
    /\ pc = "loop"
    /\ file_idx <= Len(entries)
    /\ ~entries[file_idx]
    /\ file_idx' = file_idx + 1
    /\ UNCHANGED <<entries, pc, n_pages, page_num, open_handles, written,
                   tables, table_objs, cur_page, excel, textVars, cellVars, bandVars>>

\* lines 99-100: with pdfplumber.open(pdf_path) as pdf; the page loop starts at 1
OpenPdf ==
    /\ pc = "loop"
    /\ file_idx <= Len(entries)
    /\ entries[file_idx]
    /\ open_handles' = open_handles \cup {file_idx}
    /\ n_pages' \in 0..MaxPages
    /\ page_num' = 1
    /\ pc' = "pages"
    /\ UNCHANGED <<entries, file_idx, written, tables, table_objs, cur_page, excel,
                   textVars, cellVars, bandVars>>

\* line 99: pdfplumber.open raises (a malformed PDF); nothing was opened and
\* nothing catches the exception
OpenFails ==
    /\ pc = "loop"
    /\ file_idx <= Len(entries)
    /\ entries[file_idx]
    /\ pc' = "crashed"
    /\ UNCHANGED <<entries, file_idx, n_pages, page_num, open_handles, written,
                   tables, table_objs, cur_page, excel, textVars, cellVars, bandVars>>

\* lines 100-139: one iteration of the page loop on a page drawn from pages
ProcessPageOf(pages) ==
    /\ pc = "pages"
    /\ page_num <= n_pages
    /\ \E in \in pages :
           LET dfs == all_dfs(in.page, in.tables, in.table_objs, page_num, Reshte)
           IN /\ tables' = in.tables
              /\ table_objs' = in.table_objs
              /\ cur_page' = in.page
              /\ IF dfs # <<>>
                 THEN /\ excel' = to_excel(concat(dfs))
                      /\ written' = written \cup {<<file_idx, page_num>>}
                 ELSE /\ excel' = NoExcel
                      /\ written' = written
    /\ page_num' = page_num + 1
    /\ UNCHANGED <<entries, file_idx, pc, n_pages, open_handles,
                   textVars, cellVars, bandVars>>

ProcessPage == ProcessPageOf(SmallPages)

\* lines 104-122: extract_tables, find_tables or extract_text raises; the
\* exception leaves the page loop
ExtractFails ==
    /\ pc = "pages"
    /\ page_num <= n_pages
    /\ pc' = "unwinding"
    /\ UNCHANGED <<entries, file_idx, n_pages, page_num, open_handles, written,
                   tables, table_objs, cur_page, excel, textVars, cellVars, bandVars>>

\* line 138: to_excel raises; nothing is written, the exception leaves the
\* page loop
WriteFails ==
    /\ pc = "pages"
    /\ page_num <= n_pages
    /\ \E in \in SmallPages :
           all_dfs(in.page, in.tables, in.table_objs, page_num, Reshte) # <<>>
    /\ pc' = "unwinding"
    /\ UNCHANGED <<entries, file_idx, n_pages, page_num, open_handles, written,
                   tables, table_objs, cur_page, excel, textVars, cellVars, bandVars>>

\* the exception leaves a body that has no "with": the handle stays open
UnwindLeak ==
    /\ pc = "unwinding"
    /\ pc' = "crashed"
    /\ UNCHANGED <<entries, file_idx, n_pages, page_num, open_handles, written,
                   tables, table_objs, cur_page, excel, textVars, cellVars, bandVars>>

\* the exception is caught around process_pdf and the loop goes on
UnwindAndSkipFile ==
    /\ pc = "unwinding"
    /\ open_handles' = open_handles \ {file_idx}
    /\ file_idx' = file_idx + 1
    /\ pc' = "loop"
    /\ UNCHANGED <<entries, n_pages, page_num, written,
                   tables, table_objs, cur_page, excel, textVars, cellVars, bandVars>>

\* line 99: the with statement closes the handle as the exception leaves it;
\* lines 146-149: nothing catches the exception, the run ends
Unwind ==
    /\ pc = "unwinding"
    /\ open_handles' = open_handles \ {file_idx}
    /\ pc' = "crashed"
    /\ UNCHANGED <<entries, file_idx, n_pages, page_num, written,
                   tables, table_objs, cur_page, excel, textVars, cellVars, bandVars>>

\* lines 99-100: the page loop is over, the with statement closes the handle
\* and the batch loop takes the next entry
ClosePdf ==
    /\ pc = "pages"
    /\ page_num > n_pages
    /\ open_handles' = open_handles \ {file_idx}
    /\ file_idx' = file_idx + 1
    /\ pc' = "loop"
    /\ UNCHANGED <<entries, n_pages, page_num, written,
                   tables, table_objs, cur_page, excel, textVars, cellVars, bandVars>>

\* line 146: the directory listing is exhausted
Finish ==
    /\ pc = "loop"
    /\ file_idx > Len(entries)
    /\ pc' = "done"
    /\ UNCHANGED <<entries, file_idx, n_pages, page_num, open_handles, written,
                   tables, table_objs, cur_page, excel, textVars, cellVars, bandVars>>

Next ==
    \/ SkipEntry
    \/ OpenPdf
    \/ OpenFails
    \/ ProcessPage
    \/ ExtractFails
    \/ WriteFails
    \/ Unwind
    \/ ClosePdf
    \/ Finish

Spec == Init /\ [][Next]_vars

----------------------------------------------------------------------------
\* Claims about the batch run

\* some detected table has rows
SomeTableHasRows(tbls) == \E k \in 1..Len(tbls) : tbls[k] # <<>>

\* the page loop went past a page without an error: cur_page, tables and
\* table_objs are those of page page_num - 1 of the open file
PageDone == pc = "pages" /\ page_num > 1

\* C1: the spreadsheet of a page is written if and only if the grid list and
\* the geometry list have the same length and some detected table has rows;
\* in every other case nothing is written for the page, no error is raised
\* and the page loop goes on to the next page.
C1_WrittenIffMatchingNonEmpty ==
    PageDone =>
        /\ (<<file_idx, page_num - 1>> \in written) <=>
               (Len(tables) = Len(table_objs) /\ SomeTableHasRows(tables))
        /\ (<<file_idx, page_num - 1>> \in written) <=> (excel # NoExcel)

\* two grids and one geometry object on page 1: nothing written, and the page
\* loop is at page 2, which exists
C1_Witness ==
    /\ PageDone
    /\ page_num = 2 /\ n_pages >= 2
    /\ Len(tables) = 2 /\ Len(table_objs) = 1 /\ SomeTableHasRows(tables)
    /\ <<file_idx, 1>> \notin written

\* a page whose tables match and hold rows was written
C1_WitnessWritten ==
    /\ PageDone
    /\ Len(tables) = 2 /\ Len(table_objs) = 2
    /\ tables[1] = <<>> /\ tables[2] # <<>>
    /\ <<file_idx, page_num - 1>> \in written

\* C8: the handle opened for a file is closed on every exit path of
\* process_pdf, normal or by an error, before the next file is opened: at
\* most one handle is open, and none outside process_pdf.
C8_HandleClosedOnEveryPath ==
    /\ Cardinality(open_handles) <= 1
    /\ pc \in {"loop", "crashed", "done"} => open_handles = {}
    /\ pc \in {"pages", "unwinding"} => open_handles = {file_idx}

\* the run ended by an error on a page of the second file, nothing left open
C8_Witness ==
    /\ pc = "crashed"
    /\ file_idx = 2
    /\ entries = <<TRUE, TRUE>>
    /\ n_pages >= 1 /\ page_num <= n_pages
    /\ open_handles = {}

\* C9: a collaborator failure stops the whole batch run: the failing step
\* writes nothing, and from then on no page and no file is processed and
\* nothing is written, while what was written before stays; the file is not
\* skipped in favour of going on.
C9_FailureStopsTheRun ==
    [][/\ pc' \in {"unwinding", "crashed"} =>
              /\ written' = written
              /\ file_idx' = file_idx
              /\ page_num' = page_num
       /\ pc \in {"unwinding", "crashed"} => pc' = "crashed"
       /\ pc = "crashed" => UNCHANGED batchVars]_vars

\* the run stopped on page 2 of the first file with page 1 written and a
\* second PDF never opened
C9_Witness ==
    /\ pc = "crashed"
    /\ entries = <<TRUE, TRUE>>
    /\ file_idx = 1 /\ page_num = 2
    /\ written = {<<1, 1>>}

----------------------------------------------------------------------------
\* One page in detail: tables of every shape within the bounds, with and
\* without text in the bands

\* the cell at row r, column c of a detected table: strings that are not
\* palindromes, the empty string and None
SampleCells == <<PyStr(<<"a", "b">>), PyNone, PyStr(<<"b", " ", "a", "a">>), PyStr(<<>>)>>
SampleCell(r, c) == SampleCells[((r + 2 * c) % 4) + 1]

\* a detected table of r rows and c columns; no rows: the empty list
SampleTable(r, c) == [i \in 1..r |-> [j \in 1..c |-> SampleCell(i, j)]]
SampleTables == {SampleTable(r, c) : r \in 0..MaxRows, c \in 1..MaxCols}

RichPages ==
    {[tables |-> ts, table_objs |-> TableObjs(n), page |-> PageOf(TableObjs(n), t)] :
        ts \in SeqsUpTo(SampleTables, MaxTables), n \in 0..MaxTables,
        t \in {PyNone, TwoLines, FiveLines}}

\* a PDF is open and the page loop is at its last page; the pages before it
\* yielded nothing
InitPage ==
    /\ entries = <<TRUE>>
    /\ file_idx = 1
    /\ pc = "pages"
    /\ n_pages \in 1..MaxPages
    /\ page_num = n_pages
    /\ open_handles = {1}
    /\ written = {}
    /\ tables = <<>>
    /\ table_objs = <<>>
    /\ cur_page = NoPage
    /\ excel = NoExcel
    /\ IdleText /\ IdleCells /\ IdleBand

ProcessRichPage == ProcessPageOf(RichPages)

NextPage == ProcessRichPage \/ ClosePdf \/ Finish

SpecPage == InitPage /\ [][NextPage]_vars

\* the page was processed and wrote a spreadsheet
Saved == pc = "pages" /\ page_num > n_pages /\ excel # NoExcel

\* the six metadata columns, in the order of the claim
MetaOrder == <<ColPageNum, ColRow, ColReshte, ColTitle1, ColTitle2, ColFooter>>

\* the values of the column of the sheet labelled label, top to bottom
ColumnOf(sheet, label) ==
    LET j == CHOOSE j \in 1..Len(sheet.columns) : sheet.columns[j] = label
    IN [r \in 1..Len(sheet.data) |-> sheet.data[r][j]]

HasColumn(sheet, label) == \E j \in 1..Len(sheet.columns) : sheet.columns[j] = label

\* <<k, i>> for every row i of every table k that has rows, in detection order
RECURSIVE RowOrigins(_, _)
RowOrigins(tbls, k) ==
    IF k > Len(tbls) THEN <<>>
    ELSE [i \in 1..Len(tbls[k]) |-> <<k, i>>] \o RowOrigins(tbls, k + 1)

\* the text every band of the page holds
PageText == cur_page.text[CHOOSE b \in DOMAIN cur_page.text : TRUE]
PageLines == IF Truthy(PageText) THEN Lines(PageText.s) ELSE <<>>

\* C2: in every written page result the original cell columns come first,
\* followed by exactly the six metadata columns in the order page number, row
\* index, subject label, title line 1, title line 2, combined footnote; no
\* cell column comes after a metadata column.
C2_CellColumnsThenMetadata ==
    Saved =>
        LET cols == excel.columns
            n == Len(cols)
        IN /\ n >= 6
           /\ [j \in 1..6 |-> cols[n - 6 + j]] = MetaOrder
           /\ \A j \in 1..(n - 6) : cols[j].kind = "cell"

\* what does hold: the six metadata columns are there, in that order among
\* themselves, and the cell columns of the first table with rows come first
C2_MetadataInOrder ==
    Saved =>
        LET cols == excel.columns
            meta == SelectSeq(cols, LAMBDA c : c.kind = "meta")
            first == CHOOSE k \in 1..Len(tables) :
                         tables[k] # <<>> /\ \A m \in 1..(k - 1) : tables[m] = <<>>
            w == Len(tables[first][1])
        IN /\ meta = MetaOrder
           /\ \A j \in 1..w : cols[j] = CellCol(j - 1)
           /\ [j \in 1..6 |-> cols[w + j]] = MetaOrder

\* C3: the row-index column of the page result is, for each table with rows
\* in detection order, 1..N (N the table's row count), restarting at 1 for
\* every table; concatenation renumbers the frame's index, never that column.
C3_RowIndexRestartsPerTable ==
    Saved =>
        LET origins == RowOrigins(tables, 1)
        IN /\ HasColumn(excel, ColRow)
           /\ Len(excel.data) = Len(origins)
           /\ ColumnOf(excel, ColRow) =
                  [r \in 1..Len(origins) |-> PyInt(origins[r][2])]

\* two tables of three rows each: the column reads 1, 2, 3, 1, 2, 3
C3_Witness ==
    /\ Saved
    /\ Len(tables) = 2 /\ Len(tables[1]) = 3 /\ Len(tables[2]) = 3
    /\ Len(excel.data) = 6
    /\ ColumnOf(excel, ColRow) =
           <<PyInt(1), PyInt(2), PyInt(3), PyInt(1), PyInt(2), PyInt(3)>>

\* C10: per table the steps run in the order normalize cells, resolve title,
\* resolve footnote, append metadata: in the written rows every extracted
\* string cell and every title and footnote line is reversed exactly once,
\* and the page number and the subject label are not reversed.
C10_ReversedOnceLabelsUntouched ==
    Saved =>
        LET origins == RowOrigins(tables, 1)
            L == PageLines
        IN /\ Len(excel.data) = Len(origins)
           /\ \A r \in 1..Len(origins) :
                  LET raw == tables[origins[r][1]][origins[r][2]]
                  IN \A c \in 1..Len(raw) :
                         /\ HasColumn(excel, CellCol(c - 1))
                         /\ CellReversed(raw[c], ColumnOf(excel, CellCol(c - 1))[r])
           /\ \A r \in 1..Len(origins) :
                  /\ ColumnOf(excel, ColPageNum)[r] = PyInt(page_num - 1)
                  /\ ColumnOf(excel, ColReshte)[r] = PyStr(Reshte)
                  /\ ColumnOf(excel, ColTitle1)[r] =
                         PyStr(IF Len(L) >= 1 THEN Reverse(L[1]) ELSE <<>>)
                  /\ ColumnOf(excel, ColTitle2)[r] =
                         PyStr(IF Len(L) >= 2 THEN Reverse(L[2]) ELSE <<>>)
                  /\ ColumnOf(excel, ColFooter)[r] = PyStr(JoinNL(FooterSlice(L)))

\* a 2 x 2 table on a page with five lines in its bands
C10_Witness ==
    /\ Saved
    /\ tables = <<SampleTable(2, 2)>>
    /\ PageText = FiveLines
    /\ excel.data[2][2] = PyStr(<<"a", "a", " ", "b">>)
    /\ ColumnOf(excel, ColTitle1)[1] = PyStr(<<"a">>)
    /\ ColumnOf(excel, ColTitle2)[1] = PyStr(<<"b">>)
    /\ ColumnOf(excel, ColFooter)[1] =
           PyStr(<<"b", "a", NL, "a", "b", "b", NL, "b", " ", "a">>)
    /\ ColumnOf(excel, ColReshte)[1] = PyStr(<<"h", "o", "n", "a", "r">>)

====
